---------------------------- MODULE Spec2Model ----------------------------
(***************************************************************************)
(* GreenCart order / payment consistency engine.                           *)
(*                                                                         *)
(* The persistent store (products, cart lines, orders, order items, status *)
(* history, payments, refunds, webhook events) is the state.  A request is *)
(* served by a worker.  Reads made before a transaction.atomic block       *)
(* (get_object, serializer.validate) are one step, the atomic block is a   *)
(* second step: between the two, other workers may commit.  The objects a  *)
(* worker read in its first step are kept in req[w] (they are the stale    *)
(* in-memory model instances the second step works on).                    *)
(***************************************************************************)
EXTENDS Integers, Sequences, FiniteSets, TLC

\* ------------------------------------------------------------------ bounds
MaxWorkers == 2
MaxOrders  == 2
MaxQty     == 2
InitStock  == 2
MaxTime    == 2
MaxRefunds == 2
MaxEvents  == 2
MaxHistory == 4

\* ------------------------------------------------------------- the domain
Consumers == {"u1", "u2"}
Producer  == "pr"        \* the producer who supplies every product
Actors    == Consumers \cup {Producer}
Products  == {"p1"}
Workers   == 1..MaxWorkers
OrderIds  == 1..MaxOrders

\* orders/models.py STATUS_CHOICES
OrderStatuses == {"PENDING", "CONFIRMED", "CANCELLED", "SHIPPED", "DELIVERED"}

Idle      == [op |-> "idle"]
NoPayment == [status |-> "NONE"]
NoRow     == [status |-> "NONE"]
Null      == 0
\* a user without comment on a product; a Product row without rating value
NoComment == <<>>
NoRating  == <<>>

VARIABLES
    quantity_available,  \* Product.quantity_available, per product
    is_active,           \* Product.is_active, per product
    price,               \* Product.price, per product
    cart_items,          \* CartItem rows of each consumer's cart, in creation order
    orders,              \* Order rows (with their OrderItem rows), index = id
    status_history,      \* OrderStatusHistory rows, in creation order
    payments,            \* Payment row of each order (one-to-one), or NoPayment
    refunds,             \* Refund rows, index = gateway refund id
    webhook_events,      \* WebhookEvent row of each gateway event id, or NoRow
    now,                 \* timezone.now()
    req,                 \* the request each worker is serving, with what it read
    resp,                \* the response of the last completed request
    comments,            \* Comment.rating of each user's comment on a product
    rating               \* the rating stored with each Product row

vars == <<quantity_available, is_active, price, cart_items, orders,
          status_history, payments, refunds, webhook_events, now, req, resp,
          comments, rating>>

catalogVars == <<quantity_available, is_active, price>>
orderVars   == <<orders, status_history>>
payVars     == <<payments, refunds, webhook_events, now>>
reviewVars  == <<comments, rating>>

\* ---------------------------------------------------------------- helpers
RECURSIVE SumSeq(_)
SumSeq(s) == IF s = <<>> THEN 0 ELSE Head(s) + SumSeq(Tail(s))

Response(op, code, detail) == [op |-> op, code |-> code, detail |-> detail]

\* CartItem.total_price
LineTotal(line) == line.quantity * line.price_at_time

\* Cart.total_amount
CartTotal(u) == SumSeq([k \in 1..Len(cart_items[u]) |-> LineTotal(cart_items[u][k])])

\* a cart line check that forgets the stock level
IsAvailable_ActiveOnly(line) == is_active[line.product]

\* CartItem.is_available, against the product rows as they are now
IsAvailable(line) ==
    is_active[line.product] /\ quantity_available[line.product] >= line.quantity

\* Cart.total_items
CartUnits(u) == SumSeq([k \in 1..Len(cart_items[u]) |-> cart_items[u][k].quantity])

\* index of the consumer's cart line for product p, 0 when there is none
LineIndex(u, p) ==
    IF \E k \in 1..Len(cart_items[u]) : cart_items[u][k].product = p
    THEN CHOOSE k \in 1..Len(cart_items[u]) : cart_items[u][k].product = p
    ELSE 0

\* the first cart line that is not available, 0 when all are
FirstUnavailable(u) ==
    IF \E k \in 1..Len(cart_items[u]) : ~IsAvailable(cart_items[u][k])
    THEN CHOOSE k \in 1..Len(cart_items[u]) :
            /\ ~IsAvailable(cart_items[u][k])
            /\ \A j \in 1..(k-1) : IsAvailable(cart_items[u][j])
    ELSE 0

\* quantity of product p in the items of an order (0 when it has no such item)
ItemQty(items, p) ==
    SumSeq([k \in 1..Len(items) |-> IF items[k].product = p THEN items[k].quantity ELSE 0])

\* ------------------------------------------------------------------- init
Init ==
    /\ quantity_available = [p \in Products |-> InitStock]
    /\ is_active = [p \in Products |-> TRUE]
    /\ price = [p \in Products |-> 1]
    /\ cart_items = [u \in Consumers |-> <<>>]
    /\ orders = <<>>
    /\ status_history = <<>>
    /\ payments = [i \in OrderIds |-> NoPayment]
    /\ refunds = <<>>
    /\ webhook_events = [e \in 1..MaxEvents |-> NoRow]
    /\ now = 1
    /\ req = [w \in Workers |-> Idle]
    /\ resp = Response("none", 0, "")
    /\ comments = [p \in Products |-> [u \in Consumers |-> NoComment]]
    /\ rating = [p \in Products |-> NoRating]

\* ----------------------------------------------------------------- cart
\* POST cart/add: AddToCartSerializer.validate_product_id, validate, save
AddToCart(u, p, q) ==
    /\ CartUnits(u) + q <= MaxQty
    /\ IF ~is_active[p]
       THEN /\ resp' = Response("add_to_cart", 400, "inactive")
            /\ UNCHANGED cart_items
       ELSE IF quantity_available[p] < q
       THEN /\ resp' = Response("add_to_cart", 400, "stock")
            /\ UNCHANGED cart_items
       ELSE LET k == LineIndex(u, p) IN
            /\ IF k = 0
               THEN cart_items' = [cart_items EXCEPT ![u] =
                        Append(@, [product |-> p, quantity |-> q,
                                   price_at_time |-> price[p]])]
               ELSE cart_items' = [cart_items EXCEPT ![u][k].quantity = @ + q]
            /\ resp' = Response("add_to_cart", 201, p)
    /\ UNCHANGED <<reviewVars, catalogVars, orderVars, payVars, req>>

\* PATCH products/<id> {is_active}: ProductViewSet.perform_update
ProductSetActive(p, b) ==
    /\ is_active[p] # b
    /\ is_active' = [is_active EXCEPT ![p] = b]
    /\ resp' = Response("product_update", 200, p)
    /\ UNCHANGED <<reviewVars, quantity_available, price, cart_items, orderVars, payVars, req>>

\* the prices a producer gives a product
Prices == {1, 2}

\* PATCH products/<id> {price}: ProductViewSet.perform_update
ProductSetPrice(p, v) ==
    /\ price[p] # v
    /\ price' = [price EXCEPT ![p] = v]
    /\ resp' = Response("product_update", 200, p)
    /\ UNCHANGED <<reviewVars, quantity_available, is_active, cart_items, orderVars, payVars, req>>

\* ------------------------------------------------------------- checkout
\* Product.reduce_stock applied to a stock level: the new level
reduce_stock(stock, quantity) ==
    IF stock >= quantity THEN stock - quantity ELSE stock

\* Product.increase_stock applied to a stock level
increase_stock(stock, quantity) == stock + quantity

\* the OrderItem rows CreateOrderSerializer.create makes from the cart lines
ItemsOfCart(lines) ==
    [k \in 1..Len(lines) |->
        [product     |-> lines[k].product,
         quantity    |-> lines[k].quantity,
         unit_price  |-> lines[k].price_at_time,
         total_price |-> lines[k].quantity * lines[k].price_at_time]]

\* the stock after the loop of create() has called reduce_stock for each line
RECURSIVE StockAfterReserve(_, _)
StockAfterReserve(stock, lines) ==
    IF lines = <<>> THEN stock
    ELSE LET l == Head(lines) IN
         StockAfterReserve(
            [stock EXCEPT ![l.product] = reduce_stock(@, l.quantity)],
            Tail(lines))

\* POST orders/create-from-cart, first step: CreateOrderSerializer.validate
CheckoutValidate(w, u) ==
    /\ req[w] = Idle
    /\ IF cart_items[u] = <<>>
       THEN /\ resp' = Response("checkout", 400, "Cart is empty.")
            /\ UNCHANGED req
       ELSE IF FirstUnavailable(u) # 0
       THEN /\ resp' = Response("checkout", 400,
                                cart_items[u][FirstUnavailable(u)].product)
            /\ UNCHANGED req
       ELSE /\ req' = [req EXCEPT ![w] = [op |-> "checkout", user |-> u]]
            /\ UNCHANGED resp
    /\ UNCHANGED <<reviewVars, catalogVars, cart_items, orderVars, payVars>>

\* the decimal digits of n, most significant first
RECURSIVE Digits(_)
Digits(n) == IF n < 10 THEN <<n>> ELSE Append(Digits(n \div 10), n % 10)

\* f'{new_num:03d}': the digits of n, padded with zeros to three at least
Format03(n) ==
    LET d == Digits(n) IN
    IF Len(d) >= 3 THEN d
    ELSE [k \in 1..3 |-> IF k <= 3 - Len(d) THEN 0 ELSE d[k - (3 - Len(d))]]

\* order_by('order_number'): a comes before b as character strings
StrLess(a, b) ==
    \/ Len(a) < Len(b) /\ \A k \in 1..Len(a) : a[k] = b[k]
    \/ \E k \in 1..Len(a) :
          /\ k <= Len(b)
          /\ \A j \in 1..(k - 1) : a[j] = b[j]
          /\ a[k] < b[k]

\* int(order_number[-3:])
Last3(s) == 100 * s[Len(s) - 2] + 10 * s[Len(s) - 1] + s[Len(s)]

\* the order rows that exist (a deleted row stays in the sequence as a mark)
LiveOrders == {i \in 1..Len(orders) : orders[i].status # "DELETED"}

\* the order numbers of the year in the table; a number is written as the
\* digits that follow 'GC<year>'
OrderNumbers == {orders[i].order_number : i \in LiveOrders}

\* Order.save: the number of a new order, from the last number in string order
new_order_number ==
    IF OrderNumbers = {} THEN Format03(1)
    ELSE LET last == CHOOSE s \in OrderNumbers :
                        \A t \in OrderNumbers : t = s \/ StrLess(t, s)
         IN Format03(Last3(last) + 1)

\* the body of CreateOrderSerializer.create after total_amount is read: the
\* Order row, its items, the stock, the cart and the history row; Order.save
\* picks the order number, and the insert fails on the unique order_number
\* when the number is taken (IntegrityError, the transaction is rolled back)
CreateOrder(w, total_amount) ==
    /\ IF new_order_number \in OrderNumbers
       THEN /\ resp' = Response("checkout", 500, "IntegrityError")
            /\ UNCHANGED <<quantity_available, cart_items, orders, status_history>>
       ELSE
       /\ Len(orders) < MaxOrders
       /\ Len(status_history) < MaxHistory
       /\ LET u     == req[w].user
              lines == cart_items[u]
              order == [consumer     |-> u,
                        order_number |-> new_order_number,
                        status       |-> "PENDING",
                        total_amount |-> total_amount,
                        confirmed_at |-> Null,
                        items        |-> ItemsOfCart(lines)]
          IN /\ orders' = Append(orders, order)
             /\ quantity_available' = StockAfterReserve(quantity_available, lines)
             /\ cart_items' = [cart_items EXCEPT ![u] = <<>>]
             /\ status_history' = Append(status_history,
                   [order |-> Len(orders) + 1, old_status |-> "",
                    new_status |-> "PENDING", changed_by |-> u])
             /\ resp' = Response("checkout", 201, u)
    /\ req' = [req EXCEPT ![w] = Idle]
    /\ UNCHANGED <<reviewVars, is_active, price, payVars>>

\* second step: CreateOrderSerializer.create, one transaction that no other
\* request's commit falls into
CheckoutCreate(w) ==
    /\ req[w].op = "checkout"
    /\ CreateOrder(w, CartTotal(req[w].user))

\* the same transaction under READ COMMITTED (settings/development.py), where
\* each query sees what is committed when it runs: the query of
\* cart.total_amount
CheckoutReadTotal(w) ==
    /\ req[w].op = "checkout"
    /\ req' = [req EXCEPT ![w] =
          [op |-> "checkout_create", user |-> req[w].user,
           total_amount |-> CartTotal(req[w].user)]]
    /\ UNCHANGED <<reviewVars, catalogVars, cart_items, orderVars, payVars, resp>>

\* ... and the rest of create(), from the query of cart.items.all() on
CheckoutCreateRows(w) ==
    /\ req[w].op = "checkout_create"
    /\ CreateOrder(w, req[w].total_amount)

\* ------------------------------------------------------- order lifecycle
\* Order.can_be_cancelled
can_be_cancelled(status) == status \in {"PENDING", "CONFIRMED"}

\* OrderViewSet.get_queryset: the orders a user may address
VisibleTo(a, i) ==
    /\ i \in 1..Len(orders)
    /\ IF a = Producer THEN orders[i].items # <<>> ELSE orders[i].consumer = a

\* the stock after the loop of Order.cancel has called increase_stock per item
RECURSIVE StockAfterRelease(_, _)
StockAfterRelease(stock, items) ==
    IF items = <<>> THEN stock
    ELSE LET it == Head(items) IN
         StockAfterRelease(
            [stock EXCEPT ![it.product] = increase_stock(@, it.quantity)],
            Tail(items))

\* POST orders/<id>/cancel, first step: get_object, the owner check and
\* CancelOrderSerializer.validate
CancelRead(w, a, i) ==
    /\ req[w] = Idle
    /\ i \in OrderIds
    /\ IF ~VisibleTo(a, i)
       THEN /\ resp' = Response("cancel", 404, "")
            /\ UNCHANGED req
       ELSE IF orders[i].consumer # a
       THEN /\ resp' = Response("cancel", 403, "")
            /\ UNCHANGED req
       ELSE IF ~can_be_cancelled(orders[i].status)
       THEN /\ resp' = Response("cancel", 400, "This order cannot be cancelled.")
            /\ UNCHANGED req
       ELSE /\ req' = [req EXCEPT ![w] =
                  [op |-> "cancel", user |-> a, order |-> i,
                   status |-> orders[i].status]]
            /\ UNCHANGED resp
    /\ UNCHANGED <<reviewVars, catalogVars, cart_items, orderVars, payVars>>

\* second step: CancelOrderSerializer.save with Order.cancel, one transaction,
\* on the Order instance read in the first step
CancelSave(w) ==
    /\ req[w].op = "cancel"
    /\ Len(status_history) < MaxHistory
    /\ LET i == req[w].order IN
       IF can_be_cancelled(req[w].status)
       THEN /\ quantity_available' =
                  StockAfterRelease(quantity_available, orders[i].items)
            /\ orders' = [orders EXCEPT ![i].status = "CANCELLED"]
            /\ status_history' = Append(status_history,
                  [order |-> i, old_status |-> "PENDING",
                   new_status |-> "CANCELLED", changed_by |-> req[w].user])
       ELSE UNCHANGED <<quantity_available, orders, status_history>>
    /\ resp' = Response("cancel", 200, "")
    /\ req' = [req EXCEPT ![w] = Idle]
    /\ UNCHANGED <<reviewVars, is_active, price, cart_items, payVars>>

\* UpdateOrderStatusSerializer.validate: valid_transitions
valid_transitions(status) ==
    CASE status = "PENDING"   -> {"CONFIRMED", "CANCELLED"}
      [] status = "CONFIRMED" -> {"SHIPPED", "CANCELLED"}
      [] status = "SHIPPED"   -> {"DELIVERED"}
      [] OTHER                -> {}

\* POST orders/<id>/update_status, first step: get_object, the producer
\* checks and UpdateOrderStatusSerializer.validate
UpdateStatusRead(w, a, i, new_status) ==
    /\ req[w] = Idle
    /\ i \in OrderIds
    /\ IF ~VisibleTo(a, i)
       THEN /\ resp' = Response("update_status", 404, "")
            /\ UNCHANGED req
       ELSE IF a # Producer
       THEN /\ resp' = Response("update_status", 403, "")
            /\ UNCHANGED req
       ELSE IF new_status \notin valid_transitions(orders[i].status)
       THEN /\ resp' = Response("update_status", 400, new_status)
            /\ UNCHANGED req
       ELSE /\ req' = [req EXCEPT ![w] =
                  [op |-> "update_status", user |-> a, order |-> i,
                   status |-> orders[i].status,
                   confirmed_at |-> orders[i].confirmed_at,
                   new_status |-> new_status]]
            /\ UNCHANGED resp
    /\ UNCHANGED <<reviewVars, catalogVars, cart_items, orderVars, payVars>>

\* second step: UpdateOrderStatusSerializer.save, one transaction; order.save()
\* writes every field of the instance read in the first step
UpdateStatusSave(w) ==
    /\ req[w].op = "update_status"
    /\ Len(status_history) < MaxHistory
    /\ LET i == req[w].order IN
       /\ orders' = [orders EXCEPT
             ![i].status = req[w].new_status,
             ![i].confirmed_at = IF req[w].new_status = "CONFIRMED"
                                 THEN now ELSE req[w].confirmed_at]
       /\ status_history' = Append(status_history,
             [order |-> i, old_status |-> req[w].status,
              new_status |-> req[w].new_status, changed_by |-> req[w].user])
    /\ resp' = Response("update_status", 200, req[w].new_status)
    /\ req' = [req EXCEPT ![w] = Idle]
    /\ UNCHANGED <<reviewVars, catalogVars, cart_items, payVars>>

\* PATCH orders/<id> {status}: ModelViewSet.partial_update with
\* OrderSerializer, whose status field is writable
OrderPartialUpdate(a, i, new_status) ==
    /\ i \in OrderIds
    /\ IF ~VisibleTo(a, i)
       THEN /\ resp' = Response("order_patch", 404, "")
            /\ UNCHANGED orders
       ELSE /\ orders' = [orders EXCEPT ![i].status = new_status]
            /\ resp' = Response("order_patch", 200, new_status)
    /\ UNCHANGED <<reviewVars, catalogVars, cart_items, status_history, payVars, req>>

\* DELETE orders/<id>: ModelViewSet.destroy; the order's items, history rows
\* and payment go with it (on_delete CASCADE).  The deleted row is kept as a
\* mark that holds only the number it had; orders whose payment has refunds
\* are not deleted here.
OrderDelete(a, i) ==
    /\ i \in OrderIds
    /\ \A r \in 1..Len(refunds) : refunds[r].payment # i
    /\ IF ~VisibleTo(a, i)
       THEN /\ resp' = Response("order_delete", 404, "")
            /\ UNCHANGED <<orders, status_history, payments>>
       ELSE /\ orders' = [orders EXCEPT ![i] =
                  [consumer |-> "", order_number |-> orders[i].order_number,
                   status |-> "DELETED", total_amount |-> 0,
                   confirmed_at |-> Null, items |-> <<>>]]
            /\ status_history' = SelectSeq(status_history, LAMBDA h : h.order # i)
            /\ payments' = [payments EXCEPT ![i] = NoPayment]
            /\ resp' = Response("order_delete", 204, "")
    /\ UNCHANGED <<reviewVars, catalogVars, cart_items, refunds, webhook_events, now, req>>

\* -------------------------------------------------------------- payments
\* payments/models.py Payment.STATUS_CHOICES
PaymentStatuses == {"PENDING", "PROCESSING", "SUCCEEDED", "FAILED", "CANCELLED",
                    "REFUNDED", "PARTIALLY_REFUNDED"}

EventIds  == 1..MaxEvents
RefundIds == 1..MaxRefunds

\* the event types the gateway sends: those of WebhookHandler.handle's
\* handler_map that write a row, and one type that has no handler
EventTypes == {"payment_intent.succeeded", "payment_intent.payment_failed",
               "payment_intent.canceled", "payment_intent.processing",
               "refund.created", "refund.updated", "customer.created"}

RefundEventTypes == {"refund.created", "refund.updated"}

\* a signed event: its id, its type, data.object.id and, for a refund,
\* data.object.status
Events ==
    [id : EventIds,
     type : EventTypes \ (RefundEventTypes \cup {"customer.created"}),
     object : OrderIds, status : {""}]
    \cup
    [id : EventIds, type : RefundEventTypes,
     object : RefundIds, status : {"pending", "succeeded", "failed"}]
    \cup
    [id : EventIds, type : {"customer.created"}, object : {0}, status : {""}]

\* the clock advances
Tick ==
    /\ now < MaxTime
    /\ now' = now + 1
    /\ UNCHANGED <<reviewVars, catalogVars, cart_items, orderVars, payments, refunds,
                   webhook_events, req, resp>>

\* Payment.mark_as_succeeded
mark_as_succeeded(payment) ==
    [payment EXCEPT !.status = "SUCCEEDED", !.processed_at = now]

\* Payment.mark_as_failed
mark_as_failed(payment) ==
    [payment EXCEPT !.status = "FAILED", !.processed_at = now]

\* Order.confirm
confirm(order) ==
    IF order.status = "PENDING"
    THEN [order EXCEPT !.status = "CONFIRMED", !.confirmed_at = now]
    ELSE order

\* Payment.is_pending
is_pending(payment) == payment.status \in {"PENDING", "PROCESSING"}

\* Payment.can_be_refunded
can_be_refunded(payment) == payment.status = "SUCCEEDED"

\* PaymentViewSet.get_queryset / RefundCreateSerializer.validate_payment_id:
\* the payment exists and belongs to the requester
OwnsPayment(a, i) == payments[i] # NoPayment /\ payments[i].user = a

\* a gateway call whose failure goes unnoticed
create_payment_intent_Unchecked(gw) == TRUE

\* StripeClient.create_payment_intent returns an intent; it raises StripeError
\* when the gateway answers with an error or does not answer in time
create_payment_intent(gw) == gw = "ok"

\* POST payments/ {order_id}: PaymentCreateSerializer.validate_order_id, then
\* PaymentViewSet.create; gw is the gateway's answer to createIntent
PaymentCreate(a, i, gw) ==
    /\ IF ~(i \in 1..Len(orders) /\ orders[i].consumer = a)
       THEN /\ resp' = Response("payment_create", 400, "Order not found or access denied")
            /\ UNCHANGED payments
       ELSE IF payments[i] # NoPayment
       THEN /\ resp' = Response("payment_create", 400, "Order already has a payment")
            /\ UNCHANGED payments
       ELSE IF orders[i].status # "PENDING"
       THEN /\ resp' = Response("payment_create", 400, "Order cannot be paid in current status")
            /\ UNCHANGED payments
       ELSE IF ~create_payment_intent(gw)
       THEN /\ resp' = Response("payment_create", 400, "Payment processing error")
            /\ UNCHANGED payments
       ELSE /\ payments' = [payments EXCEPT ![i] =
                  [status |-> "PENDING", amount |-> orders[i].total_amount,
                   user |-> a, processed_at |-> Null]]
            /\ resp' = Response("payment_create", 201, "")
    /\ UNCHANGED <<reviewVars, catalogVars, cart_items, orderVars, refunds, webhook_events,
                   now, req>>

\* a one-to-one relation without its unique constraint
OrderHasPayment_NoConstraint(i) == FALSE

\* Payment.order is a OneToOneField: the order already has a Payment row
OrderHasPayment(i) == payments[i] # NoPayment

\* POST payments/ as it runs beside other requests, first step:
\* PaymentCreateSerializer.validate_order_id, on the rows as read
PaymentCreateValidate(w, a, i) ==
    /\ req[w] = Idle
    /\ IF ~(i \in 1..Len(orders) /\ orders[i].consumer = a)
       THEN /\ resp' = Response("payment_create", 400, "Order not found or access denied")
            /\ UNCHANGED req
       ELSE IF payments[i] # NoPayment
       THEN /\ resp' = Response("payment_create", 400, "Order already has a payment")
            /\ UNCHANGED req
       ELSE IF orders[i].status # "PENDING"
       THEN /\ resp' = Response("payment_create", 400, "Order cannot be paid in current status")
            /\ UNCHANGED req
       ELSE /\ req' = [req EXCEPT ![w] =
                  [op |-> "payment_create", user |-> a, order |-> i,
                   status |-> orders[i].status]]
            /\ UNCHANGED resp
    /\ UNCHANGED <<reviewVars, catalogVars, cart_items, orderVars, payVars>>

\* second step: PaymentViewSet.create reads the order again and asks the
\* gateway for an intent (gw is its answer); from here on the gateway knows
\* the intent, while no Payment row holds its id yet
PaymentCreateIntent(w, gw) ==
    /\ req[w].op = "payment_create"
    /\ LET i == req[w].order IN
       IF ~(i \in 1..Len(orders) /\ orders[i].consumer = req[w].user)
       THEN /\ resp' = Response("payment_create", 404, "Order not found")
            /\ req' = [req EXCEPT ![w] = Idle]
       ELSE IF ~create_payment_intent(gw)
       THEN /\ resp' = Response("payment_create", 400, "Payment processing error")
            /\ req' = [req EXCEPT ![w] = Idle]
       ELSE /\ req' = [req EXCEPT ![w] =
                  [op |-> "payment_insert", user |-> req[w].user, order |-> i,
                   status |-> req[w].status, amount |-> orders[i].total_amount]]
            /\ UNCHANGED resp
    /\ UNCHANGED <<reviewVars, catalogVars, cart_items, orderVars, payVars>>

\* third step: Payment.objects.create; the insert fails on the one-to-one
\* constraint when the order has a payment (IntegrityError, answered 500)
PaymentCreateInsert(w) ==
    /\ req[w].op = "payment_insert"
    /\ LET i == req[w].order IN
       IF OrderHasPayment(i)
       THEN /\ resp' = Response("payment_create", 500, "Internal server error")
            /\ UNCHANGED payments
       ELSE /\ payments' = [payments EXCEPT ![i] =
                  [status |-> "PENDING", amount |-> req[w].amount,
                   user |-> req[w].user, processed_at |-> Null]]
            /\ resp' = Response("payment_create", 201, "")
    /\ req' = [req EXCEPT ![w] = Idle]
    /\ UNCHANGED <<reviewVars, catalogVars, cart_items, orderVars, refunds, webhook_events, now>>

\* POST payments/<id>/confirm: PaymentViewSet.confirm; intent_status is what
\* the gateway reports for the intent
PaymentConfirm(a, i, intent_status) ==
    /\ IF ~OwnsPayment(a, i)
       THEN /\ resp' = Response("payment_confirm", 404, "")
            /\ UNCHANGED <<payments, orders>>
       ELSE IF intent_status = "error"
       THEN /\ resp' = Response("payment_confirm", 400, "Payment confirmation error")
            /\ UNCHANGED <<payments, orders>>
       ELSE /\ resp' = Response("payment_confirm", 200, "")
            /\ IF intent_status = "succeeded"
               THEN /\ payments' = [payments EXCEPT ![i] = mark_as_succeeded(@)]
                    /\ orders' = [orders EXCEPT ![i] = confirm(@)]
               ELSE IF intent_status = "canceled"
               THEN /\ payments' = [payments EXCEPT ![i].status = "CANCELLED"]
                    /\ UNCHANGED orders
               ELSE IF intent_status \in {"requires_payment_method", "requires_confirmation"}
               THEN /\ payments' = [payments EXCEPT ![i].status = "FAILED"]
                    /\ UNCHANGED orders
               ELSE UNCHANGED <<payments, orders>>
    /\ UNCHANGED <<reviewVars, catalogVars, cart_items, status_history, refunds,
                   webhook_events, now, req>>

\* POST payments/<id>/cancel: PaymentViewSet.cancel; gw is the gateway's
\* answer to cancelIntent
PaymentCancel(a, i, gw) ==
    /\ IF ~OwnsPayment(a, i)
       THEN /\ resp' = Response("payment_cancel", 404, "")
            /\ UNCHANGED payments
       ELSE IF ~is_pending(payments[i])
       THEN /\ resp' = Response("payment_cancel", 400, "Payment cannot be cancelled")
            /\ UNCHANGED payments
       ELSE IF gw = "error"
       THEN /\ resp' = Response("payment_cancel", 400, "Payment cancellation error")
            /\ UNCHANGED payments
       ELSE /\ payments' = [payments EXCEPT ![i].status = "CANCELLED"]
            /\ resp' = Response("payment_cancel", 200, "")
    /\ UNCHANGED <<reviewVars, catalogVars, cart_items, orderVars, refunds, webhook_events,
                   now, req>>

\* POST payments/<id>/cancel as it runs beside other requests, first step:
\* get_object, the owner check and the is_pending check, on the row as read
PaymentCancelRead(w, a, i) ==
    /\ req[w] = Idle
    /\ IF ~OwnsPayment(a, i)
       THEN /\ resp' = Response("payment_cancel", 404, "")
            /\ UNCHANGED req
       ELSE IF ~is_pending(payments[i])
       THEN /\ resp' = Response("payment_cancel", 400, "Payment cannot be cancelled")
            /\ UNCHANGED req
       ELSE /\ req' = [req EXCEPT ![w] =
                  [op |-> "payment_cancel", user |-> a, order |-> i,
                   payment |-> payments[i]]]
            /\ UNCHANGED resp
    /\ UNCHANGED <<reviewVars, catalogVars, cart_items, orderVars, payVars>>

\* second step: the gateway's cancelIntent (gw is its answer), then
\* payment.status = 'CANCELLED' and payment.save(), which writes every field
\* of the instance read in the first step
PaymentCancelSave(w, gw) ==
    /\ req[w].op = "payment_cancel"
    /\ IF gw = "error"
       THEN /\ resp' = Response("payment_cancel", 400, "Payment cancellation error")
            /\ UNCHANGED payments
       ELSE /\ payments' = [payments EXCEPT ![req[w].order] =
                  [req[w].payment EXCEPT !.status = "CANCELLED"]]
            /\ resp' = Response("payment_cancel", 200, "")
    /\ req' = [req EXCEPT ![w] = Idle]
    /\ UNCHANGED <<reviewVars, catalogVars, cart_items, orderVars, refunds, webhook_events, now>>

\* PATCH payments/<id> {status}: ModelViewSet.partial_update with
\* PaymentSerializer, whose status field is writable
PaymentPartialUpdate(a, i, new_status) ==
    /\ IF ~OwnsPayment(a, i)
       THEN /\ resp' = Response("payment_patch", 404, "")
            /\ UNCHANGED payments
       ELSE /\ payments' = [payments EXCEPT ![i].status = new_status]
            /\ resp' = Response("payment_patch", 200, new_status)
    /\ UNCHANGED <<reviewVars, catalogVars, cart_items, orderVars, refunds, webhook_events,
                   now, req>>

\* Command._map_stripe_status of sync_stripe_payments
map_stripe_status(stripe_status) ==
    CASE stripe_status \in {"requires_payment_method", "requires_confirmation",
                            "requires_action"} -> "PENDING"
      [] stripe_status \in {"processing", "requires_capture"} -> "PROCESSING"
      [] stripe_status = "canceled" -> "CANCELLED"
      [] stripe_status = "succeeded" -> "SUCCEEDED"
      [] OTHER -> "PENDING"

\* manage.py sync_stripe_payments, for the payment of order i: Command.handle
\* polls the gateway for a PENDING or PROCESSING payment; intent_status is
\* what the gateway reports ("error" when the call fails)
SyncPayment(i, intent_status) ==
    /\ payments[i] # NoPayment
    /\ is_pending(payments[i])
    /\ LET new_status == map_stripe_status(intent_status) IN
       IF intent_status = "error" \/ new_status = payments[i].status
       THEN UNCHANGED <<payments, orders>>
       ELSE IF new_status = "SUCCEEDED"
       THEN /\ payments' = [payments EXCEPT ![i] = mark_as_succeeded(@)]
            /\ orders' = [orders EXCEPT ![i] = confirm(@)]
       ELSE /\ payments' = [payments EXCEPT ![i].status = new_status]
            /\ UNCHANGED orders
    /\ UNCHANGED <<reviewVars, catalogVars, cart_items, status_history, refunds,
                   webhook_events, now, req, resp>>

\* --------------------------------------------------------------- refunds
\* the amount field of a refund request: <<>> when the request has none,
\* <<n>> when it carries n
RefundAmounts == {<<>>} \cup {<<n>> : n \in 0..(MaxQty + 1)}

\* RefundCreateSerializer.validate: total of the payment's SUCCEEDED refunds
total_refunded(i) ==
    SumSeq([r \in 1..Len(refunds) |->
              IF refunds[r].payment = i /\ refunds[r].status = "SUCCEEDED"
              THEN refunds[r].amount ELSE 0])

\* POST refunds/ {payment_id, amount}: RefundCreateSerializer.validate_payment_id,
\* validate_amount, validate, then RefundViewSet.create; gw is the gateway's
\* answer to createRefund
RefundCreate(a, i, amount, gw) ==
    /\ Len(refunds) < MaxRefunds
    /\ IF payments[i] = NoPayment
       THEN /\ resp' = Response("refund_create", 400, "Payment not found")
            /\ UNCHANGED refunds
       ELSE IF payments[i].user # a
       THEN /\ resp' = Response("refund_create", 400, "Permission denied")
            /\ UNCHANGED refunds
       ELSE IF ~can_be_refunded(payments[i])
       THEN /\ resp' = Response("refund_create", 400, "Payment cannot be refunded")
            /\ UNCHANGED refunds
       ELSE IF amount # <<>> /\ amount[1] <= 0
       THEN /\ resp' = Response("refund_create", 400, "Refund amount must be positive")
            /\ UNCHANGED refunds
       ELSE IF amount # <<>> /\ total_refunded(i) + amount[1] > payments[i].amount
       THEN /\ resp' = Response("refund_create", 400, "Refund amount exceeds available amount")
            /\ UNCHANGED refunds
       ELSE IF gw = "error"
       THEN /\ resp' = Response("refund_create", 400, "Refund processing error")
            /\ UNCHANGED refunds
       ELSE /\ refunds' = Append(refunds,
                  [payment |-> i,
                   amount |-> IF amount = <<>> THEN payments[i].amount ELSE amount[1],
                   status |-> "PENDING", processed_at |-> Null])
            /\ resp' = Response("refund_create", 201, "")
    /\ UNCHANGED <<reviewVars, catalogVars, cart_items, orderVars, payments, webhook_events,
                   now, req>>

\* payments/models.py Refund.STATUS_CHOICES
RefundStatuses == {"PENDING", "SUCCEEDED", "FAILED", "CANCELLED"}

\* PATCH refunds/<id> {status}: ModelViewSet.partial_update with
\* RefundSerializer, whose status field is writable; RefundViewSet.get_queryset
\* shows a user the refunds of their payments
RefundPartialUpdate(a, r, new_status) ==
    /\ IF ~(r \in 1..Len(refunds) /\ payments[refunds[r].payment].user = a)
       THEN /\ resp' = Response("refund_patch", 404, "")
            /\ UNCHANGED refunds
       ELSE /\ refunds' = [refunds EXCEPT ![r].status = new_status]
            /\ resp' = Response("refund_patch", 200, new_status)
    /\ UNCHANGED <<reviewVars, catalogVars, cart_items, orderVars, payments, webhook_events,
                   now, req>>

\* -------------------------------------------------------------- webhooks
\* WebhookEvent.stripe_event_id without its unique constraint
EventRowExists_NoConstraint(id) == FALSE

\* WebhookEvent.stripe_event_id is unique: a row with this event id exists
EventRowExists(id) == webhook_events[id] # NoRow

\* a signature check that accepts every signature header
construct_webhook_event_Unverified(sig) == TRUE

\* StripeClient.construct_webhook_event: the signature header verifies
\* against the webhook secret
construct_webhook_event(sig) == sig = "valid"

\* POST payments/webhooks/stripe/, up to WebhookEvent.objects.create:
\* signature check, then the insert, which the unique constraint refuses for
\* an event id that has a row (IntegrityError, answered 500)
WebhookReceive(ev, sig) ==
    /\ IF sig = "missing"
       THEN /\ resp' = Response("webhook", 400, "Missing signature")
            /\ UNCHANGED webhook_events
       ELSE IF ~construct_webhook_event(sig)
       THEN /\ resp' = Response("webhook", 400, "Invalid signature")
            /\ UNCHANGED webhook_events
       ELSE IF EventRowExists(ev.id)
       THEN /\ resp' = Response("webhook", 500, "Internal server error")
            /\ UNCHANGED webhook_events
       ELSE /\ webhook_events' = [webhook_events EXCEPT ![ev.id] =
                  [status |-> "RECEIVED", event_type |-> ev.type,
                   object |-> ev.object, data_status |-> ev.status,
                   processed_at |-> Null, error_message |-> ""]]
            /\ UNCHANGED resp
    /\ UNCHANGED <<reviewVars, catalogVars, cart_items, orderVars, payments, refunds, now, req>>

\* what WebhookHandler.handle returns for the event of a row
HandlerResult(row) ==
    IF row.event_type \in {"payment_intent.succeeded", "payment_intent.payment_failed",
                           "payment_intent.canceled", "payment_intent.processing"}
    THEN payments[row.object] # NoPayment
    ELSE IF row.event_type \in RefundEventTypes
    THEN row.object \in 1..Len(refunds)
    ELSE TRUE

\* the Payment rows after the handler of the row's event has run
PaymentsAfter(row) ==
    LET i == row.object IN
    IF ~HandlerResult(row) THEN payments
    ELSE IF row.event_type = "payment_intent.succeeded"
    THEN [payments EXCEPT ![i] = mark_as_succeeded(@)]
    ELSE IF row.event_type = "payment_intent.payment_failed"
    THEN [payments EXCEPT ![i] = mark_as_failed(@)]
    ELSE IF row.event_type = "payment_intent.canceled"
    THEN [payments EXCEPT ![i].status = "CANCELLED"]
    ELSE IF row.event_type = "payment_intent.processing"
    THEN [payments EXCEPT ![i].status = "PROCESSING"]
    ELSE payments

\* the Order rows after the handler of the row's event has run
OrdersAfter(row) ==
    IF HandlerResult(row) /\ row.event_type = "payment_intent.succeeded"
    THEN [orders EXCEPT ![row.object] = confirm(@)]
    ELSE orders

\* the Refund rows after the handler of the row's event has run
RefundsAfter(row) ==
    LET r == row.object IN
    IF ~HandlerResult(row) \/ row.event_type \notin RefundEventTypes THEN refunds
    ELSE IF row.event_type = "refund.created"
    THEN IF row.data_status = "succeeded"
         THEN [refunds EXCEPT ![r].status = "SUCCEEDED", ![r].processed_at = now]
         ELSE IF row.data_status = "failed"
         THEN [refunds EXCEPT ![r].status = "FAILED", ![r].processed_at = now]
         ELSE refunds
    ELSE IF row.data_status = "succeeded" /\ refunds[r].status # "SUCCEEDED"
         THEN [refunds EXCEPT ![r].status = "SUCCEEDED", ![r].processed_at = now]
         ELSE IF row.data_status = "failed" /\ refunds[r].status # "FAILED"
         THEN [refunds EXCEPT ![r].status = "FAILED", ![r].processed_at = now]
         ELSE refunds

\* WebhookEvent.mark_as_processed
mark_as_processed(row) ==
    [row EXCEPT !.status = "PROCESSED", !.processed_at = now]

\* a mark_as_failed that drops the error message
webhook_mark_as_failed_NoMessage(row, error_message) ==
    [row EXCEPT !.status = "FAILED", !.processed_at = now]

\* WebhookEvent.mark_as_failed
webhook_mark_as_failed(row, error_message) ==
    [row EXCEPT !.status = "FAILED", !.error_message = error_message,
                !.processed_at = now]

\* the rest of stripe_webhook for the row just inserted: WebhookHandler.handle,
\* then WebhookEvent.mark_as_processed or mark_as_failed
WebhookProcess(id) ==
    /\ webhook_events[id].status = "RECEIVED"
    /\ LET row == webhook_events[id] IN
       /\ payments' = PaymentsAfter(row)
       /\ orders' = OrdersAfter(row)
       /\ refunds' = RefundsAfter(row)
       /\ IF HandlerResult(row)
          THEN /\ webhook_events' = [webhook_events EXCEPT
                     ![id] = mark_as_processed(@)]
               /\ resp' = Response("webhook", 200, "success")
          ELSE /\ webhook_events' = [webhook_events EXCEPT
                     ![id] = webhook_mark_as_failed(@, "Handler returned False")]
               /\ resp' = Response("webhook", 400, "Handler failed")
    /\ UNCHANGED <<reviewVars, catalogVars, cart_items, status_history, now, req>>

NextCheckout ==
    \/ \E u \in Consumers, p \in Products, q \in 1..MaxQty : AddToCart(u, p, q)
    \/ \E p \in Products, b \in BOOLEAN : ProductSetActive(p, b)
    \/ \E w \in Workers, u \in Consumers : CheckoutValidate(w, u)
    \/ \E w \in Workers : CheckoutCreate(w)

SpecCheckout == Init /\ [][NextCheckout]_vars

\* the lifecycle of the first order of consumer "u1", requests served one
\* after another, through every endpoint that writes an order
NextOrders ==
    \/ \E p \in Products, q \in 1..MaxQty : AddToCart("u1", p, q)
    \/ CheckoutValidate(1, "u1")
    \/ CheckoutCreate(1)
    \/ \E a \in {"u1", Producer} : CancelRead(1, a, 1)
    \/ CancelSave(1)
    \/ \E a \in {"u1", Producer}, s \in OrderStatuses : UpdateStatusRead(1, a, 1, s)
    \/ UpdateStatusSave(1)
    \/ \E a \in {"u1", Producer}, s \in OrderStatuses : OrderPartialUpdate(a, 1, s)

SpecOrders == Init /\ [][NextOrders]_vars

\* the two endpoints that cancel an order: the consumer's cancel and the
\* producer's update_status
NextStatusEndpoints ==
    \/ \E p \in Products, q \in 1..MaxQty : AddToCart("u1", p, q)
    \/ CheckoutValidate(1, "u1")
    \/ CheckoutCreate(1)
    \/ \E a \in {"u1", Producer} : CancelRead(1, a, 1)
    \/ CancelSave(1)
    \/ \E a \in {"u1", Producer}, s \in OrderStatuses : UpdateStatusRead(1, a, 1, s)
    \/ UpdateStatusSave(1)

SpecStatusEndpoints == Init /\ [][NextStatusEndpoints]_vars

NextCancel ==
    \/ \E u \in Consumers, p \in Products, q \in 1..MaxQty : AddToCart(u, p, q)
    \/ \E w \in Workers, u \in Consumers : CheckoutValidate(w, u)
    \/ \E w \in Workers : CheckoutCreate(w)
    \/ \E w \in Workers, a \in Actors, i \in OrderIds : CancelRead(w, a, i)
    \/ \E w \in Workers : CancelSave(w)

SpecCancel == Init /\ [][NextCancel]_vars

\* the events about the payment intent of the first order, and the event of
\* a type without handler
PaymentEvents ==
    {ev \in Events : ev.type \notin RefundEventTypes /\ ev.object \in {0, 1}}

\* the events about refunds
RefundEvents == {ev \in Events : ev.type \in RefundEventTypes}

\* consumer "u1" checks out once
FirstCheckout ==
    \/ \E p \in Products, q \in 1..MaxQty : Len(orders) = 0 /\ AddToCart("u1", p, q)
    \/ Len(orders) = 0 /\ CheckoutValidate(1, "u1")
    \/ CheckoutCreate(1)

\* the payment of the first order: its endpoints and the webhook deliveries
\* about it, which may overlap
NextPayments ==
    \/ FirstCheckout
    \/ Tick
    \/ \E gw \in {"ok", "error"} : PaymentCreate("u1", 1, gw)
    \/ \E st \in {"succeeded", "canceled", "requires_payment_method",
                   "processing", "error"} : PaymentConfirm("u1", 1, st)
    \/ \E gw \in {"ok", "error"} : PaymentCancel("u1", 1, gw)
    \/ \E s \in PaymentStatuses : PaymentPartialUpdate("u1", 1, s)
    \/ \E st \in {"succeeded", "canceled", "requires_payment_method",
                   "processing", "error"} : SyncPayment(1, st)
    \/ \E ev \in PaymentEvents, sig \in {"missing", "invalid", "valid"} :
          WebhookReceive(ev, sig)
    \/ \E id \in EventIds : WebhookProcess(id)

SpecPayments == Init /\ [][NextPayments]_vars

\* the webhook deliveries about the payment of the first order, which may
\* overlap and repeat an event id
NextWebhooks ==
    \/ FirstCheckout
    \/ Tick
    \/ \E gw \in {"ok", "error"} : PaymentCreate("u1", 1, gw)
    \/ \E ev \in PaymentEvents, sig \in {"missing", "invalid", "valid"} :
          WebhookReceive(ev, sig)
    \/ \E id \in EventIds : WebhookProcess(id)

SpecWebhooks == Init /\ [][NextWebhooks]_vars

\* the refunds of the payment of the first order, once the gateway reports
\* the payment as succeeded
NextRefunds ==
    \/ FirstCheckout
    \/ \E gw \in {"ok", "error"} : PaymentCreate("u1", 1, gw)
    \/ PaymentConfirm("u1", 1, "succeeded")
    \/ \E amount \in RefundAmounts, gw \in {"ok", "error"} :
          RefundCreate("u1", 1, amount, gw)
    \/ \E ev \in RefundEvents : WebhookReceive(ev, "valid")
    \/ \E id \in EventIds : WebhookProcess(id)

SpecRefunds == Init /\ [][NextRefunds]_vars

\* every endpoint of the refund resource that writes a Refund, and the
\* deliveries of the first refund event
NextRefundEndpoints ==
    \/ FirstCheckout
    \/ \E gw \in {"ok", "error"} : PaymentCreate("u1", 1, gw)
    \/ PaymentConfirm("u1", 1, "succeeded")
    \/ \E amount \in RefundAmounts, gw \in {"ok", "error"} :
          RefundCreate("u1", 1, amount, gw)
    \/ \E r \in RefundIds, s \in RefundStatuses : RefundPartialUpdate("u1", r, s)
    \/ \E ev \in RefundEvents : ev.id = 1 /\ WebhookReceive(ev, "valid")
    \/ WebhookProcess(1)

SpecRefundEndpoints == Init /\ [][NextRefundEndpoints]_vars

\* the consumer's payment cancel request (worker 2) beside the deliveries of
\* payment_intent.succeeded for the same payment
NextPaymentRace ==
    \/ FirstCheckout
    \/ Tick
    \/ \E gw \in {"ok", "error"} : PaymentCreate("u1", 1, gw)
    \/ PaymentCancelRead(2, "u1", 1)
    \/ \E gw \in {"ok", "error"} : PaymentCancelSave(2, gw)
    \/ \E ev \in PaymentEvents :
          ev.type = "payment_intent.succeeded" /\ WebhookReceive(ev, "valid")
    \/ \E id \in EventIds : WebhookProcess(id)

SpecPaymentRace == Init /\ [][NextPaymentRace]_vars

\* orders are created and deleted
NextOrderDelete ==
    \/ \E u \in Consumers, p \in Products, q \in 1..MaxQty : AddToCart(u, p, q)
    \/ \E u \in Consumers : CheckoutValidate(1, u)
    \/ CheckoutCreate(1)
    \/ \E a \in Actors, i \in OrderIds : OrderDelete(a, i)

SpecOrderDelete == Init /\ [][NextOrderDelete]_vars

\* the sequence numbers the last order of the year may have when a run starts
SeedSequences == {1, 9, 99, 998, 999}

\* a store that holds one delivered order of the year, numbered from
\* SeedSequences (the orders before it are deleted or of earlier years)
InitOrderNumbers ==
    /\ quantity_available = [p \in Products |-> InitStock]
    /\ is_active = [p \in Products |-> TRUE]
    /\ price = [p \in Products |-> 1]
    /\ cart_items = [u \in Consumers |-> <<>>]
    /\ \E n \in SeedSequences :
          orders = <<[consumer |-> "u2", order_number |-> Format03(n),
                      status |-> "DELIVERED", total_amount |-> 1,
                      confirmed_at |-> 1,
                      items |-> <<[product |-> "p1", quantity |-> 1,
                                   unit_price |-> 1, total_price |-> 1]>>]>>
    /\ status_history = <<>>
    /\ payments = [i \in OrderIds |-> NoPayment]
    /\ refunds = <<>>
    /\ webhook_events = [e \in 1..MaxEvents |-> NoRow]
    /\ now = 1
    /\ req = [w \in Workers |-> Idle]
    /\ resp = Response("none", 0, "")
    /\ comments = [p \in Products |-> [u \in Consumers |-> NoComment]]
    /\ rating = [p \in Products |-> NoRating]

\* checkouts in a year that already has orders
NextOrderNumbers ==
    \/ \E u \in Consumers, p \in Products, q \in 1..MaxQty : AddToCart(u, p, q)
    \/ \E u \in Consumers : CheckoutValidate(1, u)
    \/ CheckoutCreate(1)

SpecOrderNumbers == InitOrderNumbers /\ [][NextOrderNumbers]_vars

\* checkouts of consumer "u1" while the catalog price and the cart change
NextTotals ==
    \/ \E p \in Products, q \in 1..MaxQty : AddToCart("u1", p, q)
    \/ \E p \in Products, v \in Prices : ProductSetPrice(p, v)
    \/ CheckoutValidate(1, "u1")
    \/ CheckoutReadTotal(1)
    \/ CheckoutCreateRows(1)

SpecTotals == Init /\ [][NextTotals]_vars

\* ------------------------------------------------------------- comments
\* Comment.rating, in tenths (DecimalField with one decimal place, 0.0..5.0)
CommentRatings == {10, 40, 45, 50}

\* the concrete fields the Product model declares, besides its key
ProductFields ==
    {"producer", "category", "name", "description", "price", "unit",
     "quantity_available", "expiry_date", "is_organic", "is_local",
     "harvest_date", "is_active", "created_at", "updated_at"}

\* the users with a comment on product p among the rows cs
Commenters(cs, p) == {u \in Consumers : cs[p][u] # NoComment}

RECURSIVE SumRatings(_, _)
SumRatings(row, S) ==
    IF S = {} THEN 0
    ELSE LET u == CHOOSE x \in S : TRUE
         IN row[u][1] + SumRatings(row, S \ {u})

\* round(avg_rating, 1) of the Decimal sum/n counted in tenths: to the
\* nearest tenth, a tie to the even one
RoundTenth(sum, n) ==
    LET q == sum \div n
        r == sum % n
    IN IF 2 * r < n THEN q
       ELSE IF 2 * r > n THEN q + 1
       ELSE IF q % 2 = 0 THEN q ELSE q + 1

\* Model.save(update_fields=[...]) refuses a name that is not a field of
\* the model (ValueError)
save_update_fields(field) == field \in ProductFields

\* the post_save / post_delete receiver, run on the comment rows cs after
\* the write: the rating the Product row of p holds afterwards
update_product_rating(cs, p) ==
    LET S == Commenters(cs, p)
        avg_rating == IF S = {} THEN <<0>>
                      ELSE <<RoundTenth(SumRatings(cs[p], S), Cardinality(S))>>
    IN IF save_update_fields("rating") THEN avg_rating ELSE rating[p]

\* the answer of a comment request whose write ran the receiver
AfterSignal(op, code) ==
    IF save_update_fields("rating") THEN Response(op, code, "")
    ELSE Response(op, 500, "ValueError")

\* POST comments/: CommentViewSet.create
CommentCreate(u, p, r) ==
    /\ IF comments[p][u] # NoComment
       THEN /\ resp' = Response("comment_create", 400, "already commented")
            /\ UNCHANGED reviewVars
       ELSE LET cs == [comments EXCEPT ![p][u] = <<r>>] IN
            /\ comments' = cs
            /\ rating' = [rating EXCEPT ![p] = update_product_rating(cs, p)]
            /\ resp' = AfterSignal("comment_create", 201)
    /\ UNCHANGED <<catalogVars, cart_items, orderVars, payVars, req>>

\* PUT/PATCH comments/<id>: CommentViewSet.update, by user a on the comment
\* of user u
CommentUpdate(a, u, p, r) ==
    /\ IF comments[p][u] = NoComment
       THEN /\ resp' = Response("comment_update", 404, "")
            /\ UNCHANGED reviewVars
       ELSE IF a # u
       THEN /\ resp' = Response("comment_update", 403, "")
            /\ UNCHANGED reviewVars
       ELSE LET cs == [comments EXCEPT ![p][u] = <<r>>] IN
            /\ comments' = cs
            /\ rating' = [rating EXCEPT ![p] = update_product_rating(cs, p)]
            /\ resp' = AfterSignal("comment_update", 200)
    /\ UNCHANGED <<catalogVars, cart_items, orderVars, payVars, req>>

\* DELETE comments/<id>: CommentViewSet.destroy
CommentDelete(a, u, p) ==
    /\ IF comments[p][u] = NoComment
       THEN /\ resp' = Response("comment_delete", 404, "")
            /\ UNCHANGED reviewVars
       ELSE IF a # u
       THEN /\ resp' = Response("comment_delete", 403, "")
            /\ UNCHANGED reviewVars
       ELSE LET cs == [comments EXCEPT ![p][u] = NoComment] IN
            /\ comments' = cs
            /\ rating' = [rating EXCEPT ![p] = update_product_rating(cs, p)]
            /\ resp' = AfterSignal("comment_delete", 204)
    /\ UNCHANGED <<catalogVars, cart_items, orderVars, payVars, req>>

\* comments of the users on the products
NextComments ==
    \/ \E u \in Consumers, p \in Products, r \in CommentRatings :
          CommentCreate(u, p, r)
    \/ \E a \in Consumers, u \in Consumers, p \in Products, r \in CommentRatings :
          CommentUpdate(a, u, p, r)
    \/ \E a \in Consumers, u \in Consumers, p \in Products : CommentDelete(a, u, p)

SpecComments == Init /\ [][NextComments]_vars

\* the first order between its consumer's cancel, the producer's status
\* updates and the webhook deliveries about its payment
NextOrderPayment ==
    \/ FirstCheckout
    \/ PaymentCreate("u1", 1, "ok")
    \/ \E a \in {"u1", Producer} : CancelRead(2, a, 1)
    \/ CancelSave(2)
    \/ \E s \in OrderStatuses : UpdateStatusRead(2, Producer, 1, s)
    \/ UpdateStatusSave(2)
    \/ \E ev \in PaymentEvents :
          /\ ev.type \in {"payment_intent.succeeded", "payment_intent.payment_failed"}
          /\ ev.object = 1
          /\ WebhookReceive(ev, "valid")
    \/ \E id \in EventIds : WebhookProcess(id)

SpecOrderPayment == Init /\ [][NextOrderPayment]_vars

\* the verified payment_intent.succeeded event about the payment of the
\* first order
SucceededEvent ==
    [id |-> 1, type |-> "payment_intent.succeeded", object |-> 1, status |-> ""]

\* once the intent exists, the gateway delivers the event, again as long as
\* no delivery of it was answered 2xx; the endpoint answers 200 only as it
\* marks the row PROCESSED
Redeliver ==
    /\ \/ payments[SucceededEvent.object] # NoPayment
       \/ \E w \in Workers :
             req[w].op = "payment_insert" /\ req[w].order = SucceededEvent.object
    /\ webhook_events[SucceededEvent.id].status # "PROCESSED"
    /\ WebhookReceive(SucceededEvent, "valid")

\* the first order, its payment and the deliveries of the succeeded event
NextRedelivery ==
    \/ FirstCheckout
    \/ \E w \in Workers : PaymentCreateValidate(w, "u1", 1)
    \/ \E w \in Workers, gw \in {"ok", "error"} : PaymentCreateIntent(w, gw)
    \/ \E w \in Workers : PaymentCreateInsert(w)
    \/ Redeliver
    \/ WebhookProcess(SucceededEvent.id)

\* the gateway does not give up redelivering, and a request that inserted
\* its WebhookEvent row runs on to its answer
SpecRedelivery ==
    /\ Init /\ [][NextRedelivery]_vars
    /\ WF_vars(Redeliver)
    /\ WF_vars(WebhookProcess(SucceededEvent.id))

\* payment creation requests for the first order that overlap, and the
\* succeeded event of its payment
NextPaymentCreate ==
    \/ FirstCheckout
    \/ Tick
    \/ \E w \in Workers, a \in Consumers : PaymentCreateValidate(w, a, 1)
    \/ \E w \in Workers, gw \in {"ok", "error"} : PaymentCreateIntent(w, gw)
    \/ \E w \in Workers : PaymentCreateInsert(w)
    \/ \E ev \in PaymentEvents :
          /\ ev.id = 1 /\ ev.type = "payment_intent.succeeded"
          /\ WebhookReceive(ev, "valid")
    \/ WebhookProcess(1)

SpecPaymentCreate == Init /\ [][NextPaymentCreate]_vars

\* ------------------------------------------------------------ properties
OrderCreated == Len(orders') = Len(orders) + 1

\* units of product p recorded in the OrderItems of all orders
UnitsOrdered(p) ==
    SumSeq([i \in 1..Len(orders) |-> ItemQty(orders[i].items, p)])

\* C3: every checkout that creates an order decreases each product's
\* quantity_available by exactly the quantity of that product's OrderItem,
\* and a cart loses its lines if and only if an order was created from it.
C3_CheckoutReservesExactly ==
    [][ /\ OrderCreated =>
             LET o == orders'[Len(orders')] IN
             /\ \A p \in Products :
                   quantity_available'[p] =
                       quantity_available[p] - ItemQty(o.items, p)
             /\ cart_items'[o.consumer] = <<>>
        /\ \A u \in Consumers :
             (cart_items[u] # <<>> /\ cart_items'[u] = <<>>) =>
                 (OrderCreated /\ orders'[Len(orders')].consumer = u)
      ]_vars

\* C4: under any interleaving of checkouts, quantity_available is never
\* negative, no decrement is lost (the stock is the initial stock minus the
\* units recorded in OrderItems) and the units recorded in OrderItems never
\* exceed the stock that was available.
C4_ReserveAtomic ==
    \A p \in Products :
        /\ quantity_available[p] >= 0
        /\ quantity_available[p] = InitStock - UnitsOrdered(p)
        /\ UnitsOrdered(p) <= InitStock

\* C5: Order.status changes only along the transition graph, whatever
\* operation writes the order.
C5_StatusFollowsGraph ==
    [][ \A i \in 1..Len(orders) :
            \/ orders'[i].status = orders[i].status
            \/ orders'[i].status \in valid_transitions(orders[i].status)
      ]_vars

\* C9: a cancel acts on an order that is PENDING or CONFIRMED in the store,
\* adds each item's quantity back exactly once and sets CANCELLED in the same
\* step; a cancel attempt on an order that is already CANCELLED changes
\* neither stock nor status.
C9_CancelReleasesOnce ==
    [][ \A w \in Workers :
            CancelSave(w) =>
                LET i == req[w].order IN
                IF can_be_cancelled(orders[i].status)
                THEN /\ \A p \in Products :
                          quantity_available'[p] =
                              quantity_available[p] + ItemQty(orders[i].items, p)
                     /\ orders'[i].status = "CANCELLED"
                ELSE UNCHANGED <<quantity_available, orders>>
      ]_vars

\* C10: a checkout whose cart is empty, or has a line whose product is
\* inactive or short of stock, is answered 400 with the offending product
\* named, and changes no product, cart, order or history row.
C10_RejectedCheckoutMutatesNothing ==
    [][ \A w \in Workers, u \in Consumers :
            LET Short(l) == \/ ~is_active[l.product]
                            \/ quantity_available[l.product] < l.quantity
            IN
            (CheckoutValidate(w, u)
             /\ (cart_items[u] = <<>>
                 \/ \E k \in 1..Len(cart_items[u]) : Short(cart_items[u][k])))
            => /\ resp'.op = "checkout" /\ resp'.code = 400
               /\ cart_items[u] # <<>> =>
                     \E k \in 1..Len(cart_items[u]) :
                        /\ Short(cart_items[u][k])
                        /\ resp'.detail = cart_items[u][k].product
               /\ req'[w] = Idle
               /\ UNCHANGED <<catalogVars, cart_items, orderVars>>
      ]_vars

\* C10 witness: after a checkout took the last units, the checkout of another
\* consumer was refused naming the product, and that consumer's cart is kept
C10_Witness ==
    /\ resp = Response("checkout", 400, "p1")
    /\ Len(orders) = 1
    /\ quantity_available["p1"] = 0
    /\ \E u \in Consumers :
          /\ u # orders[1].consumer
          /\ cart_items[u] # <<>>

\* C1: a signed delivery of an event id that already has a WebhookEvent row
\* changes no Payment, Order, Refund or WebhookEvent row, so the state after
\* the n-th delivery is the state after the first; the handler of a row runs
\* only while the row is RECEIVED and leaves it PROCESSED or FAILED for good,
\* so the payment transition and the Order confirmation of one event id are
\* applied once, however the deliveries interleave.
C1_DuplicateDeliveryAppliedOnce ==
    [][\A id \in EventIds :
          /\ (/\ webhook_events[id] # NoRow
              /\ \E ev \in PaymentEvents : ev.id = id /\ WebhookReceive(ev, "valid"))
             => UNCHANGED <<payments, orders, refunds, webhook_events>>
          /\ webhook_events[id].status \in {"PROCESSED", "FAILED"}
             => webhook_events'[id] = webhook_events[id]
          /\ webhook_events[id].status = "RECEIVED"
             => \/ webhook_events'[id] = webhook_events[id]
                \/ /\ WebhookProcess(id)
                   /\ webhook_events'[id].status \in {"PROCESSED", "FAILED"}
      ]_vars

\* C1 witness: a payment_intent.succeeded event was handled (payment
\* SUCCEEDED, order CONFIRMED, row PROCESSED) and a later delivery of an
\* existing event id was refused.
C1_Witness ==
    /\ resp = Response("webhook", 500, "Internal server error")
    /\ payments[1].status = "SUCCEEDED"
    /\ Len(orders) = 1 /\ orders[1].status = "CONFIRMED"
    /\ \E id \in EventIds :
          /\ webhook_events[id].status = "PROCESSED"
          /\ webhook_events[id].event_type = "payment_intent.succeeded"

\* C2: for every payment the amounts of its SUCCEEDED refunds sum to at most
\* the payment's amount.
C2_RefundsWithinPayment ==
    \A i \in OrderIds :
       payments[i] # NoPayment =>
          SumSeq([r \in 1..Len(refunds) |->
                    IF refunds[r].payment = i /\ refunds[r].status = "SUCCEEDED"
                    THEN refunds[r].amount ELSE 0]) <= payments[i].amount

\* the transitions C6 allows from a payment status
PaymentGraph(status) ==
    CASE status = "PENDING"    -> {"PROCESSING", "SUCCEEDED", "FAILED", "CANCELLED"}
      [] status = "PROCESSING" -> {"SUCCEEDED", "FAILED"}
      [] status = "SUCCEEDED"  -> {"REFUNDED", "PARTIALLY_REFUNDED"}
      [] OTHER                 -> {}

\* C6: every step that changes the status of an existing payment follows
\* PENDING -> PROCESSING | SUCCEEDED | FAILED | CANCELLED,
\* PROCESSING -> SUCCEEDED | FAILED, SUCCEEDED -> REFUNDED | PARTIALLY_REFUNDED.
C6_PaymentStatusFollowsGraph ==
    [][\A i \in OrderIds :
          payments[i] # NoPayment =>
             \/ payments'[i].status = payments[i].status
             \/ payments'[i].status \in PaymentGraph(payments[i].status)
      ]_vars

\* SUCCEEDED is applied to the payment of order i: by the handler of a
\* payment_intent.succeeded event or by the confirm endpoint
ApplySucceeded(i) ==
    \/ \E id \in EventIds :
          /\ webhook_events[id].status = "RECEIVED"
          /\ webhook_events[id].event_type = "payment_intent.succeeded"
          /\ webhook_events[id].object = i
          /\ WebhookProcess(id)
    \/ \E a \in Consumers : PaymentConfirm(a, i, "succeeded")

\* C7: applying SUCCEEDED to a payment that is already SUCCEEDED leaves the
\* payment (status, processed_at) and its order unchanged.
C7_SucceededIdempotent ==
    [][\A i \in OrderIds :
          (payments[i].status = "SUCCEEDED" /\ ApplySucceeded(i))
             => payments'[i] = payments[i] /\ orders'[i] = orders[i]
      ]_vars

\* the rank of a payment status: PENDING < PROCESSING < the outcomes
StatusRank(status) ==
    CASE status = "PENDING" -> 0 [] status = "PROCESSING" -> 1 [] OTHER -> 2

\* the payment status that an event type reports
ReportedStatus(type) ==
    CASE type = "payment_intent.succeeded"      -> "SUCCEEDED"
      [] type = "payment_intent.payment_failed" -> "FAILED"
      [] type = "payment_intent.canceled"       -> "CANCELLED"
      [] type = "payment_intent.processing"     -> "PROCESSING"

\* C8: the handler of a payment event that reports a status of lower rank
\* than the payment's current status leaves the payment as it is.
C8_LowerRankIgnored ==
    [][\A id \in EventIds :
          LET row == webhook_events[id] IN
          (/\ row.status = "RECEIVED"
           /\ row.event_type \in {"payment_intent.succeeded", "payment_intent.payment_failed",
                                  "payment_intent.canceled", "payment_intent.processing"}
           /\ payments[row.object] # NoPayment
           /\ StatusRank(ReportedStatus(row.event_type)) < StatusRank(payments[row.object].status)
           /\ WebhookProcess(id))
          => payments'[row.object] = payments[row.object]
      ]_vars

\* C11: a step that changes the status of an order, or creates an order,
\* appends exactly one OrderStatusHistory row, whose old_status is the status
\* before the step ("" for a new order) and whose new_status is the status
\* after it; a step that changes no order status appends no row.
C11_EveryStatusChangeRecorded ==
    [][LET n == Len(status_history)
           changed == {i \in 1..Len(orders) : orders'[i].status # orders[i].status}
       IN
       /\ \A i \in changed :
             /\ Len(status_history') = n + 1
             /\ status_history'[n + 1].order = i
             /\ status_history'[n + 1].old_status = orders[i].status
             /\ status_history'[n + 1].new_status = orders'[i].status
             /\ SubSeq(status_history', 1, n) = status_history
       /\ Len(orders') > Len(orders) =>
             /\ Len(status_history') = n + 1
             /\ status_history'[n + 1].order = Len(orders')
             /\ status_history'[n + 1].old_status = ""
             /\ status_history'[n + 1].new_status = "PENDING"
       /\ (changed = {} /\ Len(orders') = Len(orders)) =>
             status_history' = status_history
      ]_vars

\* C12: a refund request on a refundable payment of the requester whose
\* amount (the payment's amount when the request carries none) plus the
\* payment's SUCCEEDED refunds exceeds Payment.amount is answered with the
\* validation error, before the gateway is asked, and creates no Refund row.
C12_ExcessRefundRejected ==
    [][\A amount \in RefundAmounts, gw \in {"ok", "error"} :
          LET p == payments[1]
              requested == IF amount = <<>> THEN p.amount ELSE amount[1]
              succeeded == SumSeq([r \in 1..Len(refunds) |->
                              IF refunds[r].payment = 1 /\ refunds[r].status = "SUCCEEDED"
                              THEN refunds[r].amount ELSE 0])
          IN (/\ RefundCreate("u1", 1, amount, gw)
              /\ p.status = "SUCCEEDED"
              /\ requested > 0
              /\ requested + succeeded > p.amount)
             => /\ refunds' = refunds
                /\ resp' = Response("refund_create", 400,
                                    "Refund amount exceeds available amount")
      ]_vars

\* C13: a signed delivery of an event id that already has a WebhookEvent row
\* is answered with a 2xx status, runs no handler and creates or changes no
\* row.
C13_DuplicateAnsweredSuccess ==
    [][\A ev \in PaymentEvents :
          (webhook_events[ev.id] # NoRow /\ WebhookReceive(ev, "valid"))
          => /\ resp'.op = "webhook"
             /\ resp'.code \in 200..299
             /\ UNCHANGED <<payments, refunds, orders, status_history, webhook_events>>
      ]_vars

C15_RecordedEventAnswered2xx ==
    [][\A id \in EventIds :
          (webhook_events[id].status = "RECEIVED" /\ WebhookProcess(id))
          => resp'.op = "webhook" /\ resp'.code \in 200..299
      ]_vars

\* C16: a webhook request whose signature header is missing or does not
\* verify is answered 400, creates no WebhookEvent row and changes no
\* Payment, Refund or Order.
C16_BadSignatureRejected ==
    [][\A ev \in PaymentEvents, sig \in {"missing", "invalid"} :
          WebhookReceive(ev, sig)
          => /\ resp'.op = "webhook" /\ resp'.code = 400
             /\ UNCHANGED <<webhook_events, payments, refunds, orders,
                            status_history>>
      ]_vars

\* C16 witness: a request with a signature that does not verify was rejected
\* while a payment was waiting for its event and no event row exists.
C16_Witness ==
    /\ resp = Response("webhook", 400, "Invalid signature")
    /\ payments[1].status = "PENDING"
    /\ \A id \in EventIds : webhook_events[id] = NoRow

\* C17: the handling of a verified event whose type has no handler leaves
\* its WebhookEvent IGNORED, changes no Payment, Refund or Order and is
\* answered without error.
C17_UnknownTypeIgnored ==
    [][\A id \in EventIds :
          (/\ webhook_events[id].status = "RECEIVED"
           /\ webhook_events[id].event_type = "customer.created"
           /\ WebhookProcess(id))
          => /\ webhook_events'[id].status = "IGNORED"
             /\ resp'.code \in 200..299
             /\ UNCHANGED <<payments, refunds, orders>>
      ]_vars

\* C18: a step that changes the status of an existing payment is the handling
\* of a verified webhook event, or the consumer's cancel request taking the
\* payment from PENDING to CANCELLED.
C18_StatusDrivenByWebhooks ==
    [][\A i \in OrderIds :
          (payments[i] # NoPayment /\ payments'[i].status # payments[i].status)
          => \/ \E id \in EventIds :
                   webhook_events[id].status = "RECEIVED" /\ WebhookProcess(id)
             \/ /\ payments[i].status = "PENDING"
                /\ payments'[i].status = "CANCELLED"
                /\ \E a \in Consumers : PaymentCancel(a, i, "ok")
      ]_vars

\* C19: a Refund row is created with status PENDING, and a step that changes
\* the status of a Refund is the handling of a refund webhook event about it.
C19_RefundStatusByWebhookOnly ==
    [][/\ Len(refunds') >= Len(refunds)
       /\ \A r \in (Len(refunds) + 1)..Len(refunds') : refunds'[r].status = "PENDING"
       /\ \A r \in 1..Len(refunds) :
             refunds'[r].status # refunds[r].status
             => \E id \in EventIds :
                   /\ webhook_events[id].status = "RECEIVED"
                   /\ webhook_events[id].event_type \in RefundEventTypes
                   /\ webhook_events[id].object = r
                   /\ WebhookProcess(id)
      ]_vars

\* C20: the consumer's cancel request writes CANCELLED only on a payment
\* whose stored status is PENDING at the moment of the write; a SUCCEEDED
\* payment is never overwritten with CANCELLED, so no order is CONFIRMED
\* while its payment is CANCELLED.
C20_CancelGuardedAtWrite ==
    [][\A i \in OrderIds :
          /\ (/\ \E w \in Workers, gw \in {"ok", "error"} : PaymentCancelSave(w, gw)
              /\ payments'[i] # payments[i])
             => payments[i].status = "PENDING"
          /\ payments[i].status = "SUCCEEDED" => payments'[i].status # "CANCELLED"
          /\ ~(/\ i <= Len(orders')
               /\ orders'[i].status = "CONFIRMED"
               /\ payments'[i].status = "CANCELLED")
      ]_vars

\* C21: the order_number of a created order differs from the number of every
\* order created before, deleted ones included, and the number of an order
\* never changes.
C21_OrderNumberNeverReused ==
    [][/\ OrderCreated =>
             \A i \in 1..Len(orders) :
                orders'[Len(orders')].order_number # orders[i].order_number
       /\ \A i \in 1..Len(orders) :
             orders'[i].order_number = orders[i].order_number
      ]_vars

\* the number a digit string denotes
RECURSIVE Value(_)
Value(s) == IF s = <<>> THEN 0 ELSE 10 * Value(SubSeq(s, 1, Len(s) - 1)) + s[Len(s)]

\* C25: within the year every checkout that reaches the creation step creates
\* its order, and the sequence part of the new order's number is larger than
\* that of every earlier order, also past 999.
C25_SequenceIncreasing ==
    [][\A w \in Workers :
          CheckoutCreate(w)
          => /\ OrderCreated
             /\ \A i \in 1..Len(orders) :
                   Value(orders'[Len(orders')].order_number)
                      > Value(orders[i].order_number)
      ]_vars

\* C22: a payment creation whose gateway createIntent call fails creates no
\* Payment row and leaves the order as it is; a Payment row appears only in
\* a creation request whose gateway call succeeded.
C22_NoPaymentWithoutIntent ==
    [][\A i \in OrderIds :
          /\ (\E a \in Consumers : PaymentCreate(a, i, "error"))
             => /\ UNCHANGED <<payments, orders, status_history>>
                /\ resp'.code = 400
          /\ (payments[i] = NoPayment /\ payments'[i] # NoPayment)
             => /\ \E a \in Consumers : PaymentCreate(a, i, "ok")
                /\ resp' = Response("payment_create", 201, "")
      ]_vars

\* C22 witness: a creation request for a payable order failed at the gateway
\* and the order has no payment.
C22_Witness ==
    /\ resp = Response("payment_create", 400, "Payment processing error")
    /\ Len(orders) = 1 /\ orders[1].status = "PENDING"
    /\ payments[1] = NoPayment

\* C23: in every state the total_amount of an order is the sum of the
\* total_price of its items, and the total_price of an item is its quantity
\* times its unit_price.
C23_TotalIsSumOfItems ==
    \A i \in 1..Len(orders) :
       /\ orders[i].total_amount =
             SumSeq([k \in 1..Len(orders[i].items) |-> orders[i].items[k].total_price])
       /\ \A k \in 1..Len(orders[i].items) :
             orders[i].items[k].total_price =
                orders[i].items[k].quantity * orders[i].items[k].unit_price

\* C24: the handling of a refund event that brings a Refund to SUCCEEDED
\* takes the refund's Payment to PARTIALLY_REFUNDED while its succeeded
\* refunds sum to less than Payment.amount and to REFUNDED once they equal
\* it, and adds the quantities of the order's items back to the stock.
C24_RefundReversesPayment ==
    [][\A r \in 1..Len(refunds) :
          (refunds[r].status # "SUCCEEDED" /\ refunds'[r].status = "SUCCEEDED"
           /\ \E id \in EventIds : WebhookProcess(id))
          => LET i == refunds[r].payment
                 refunded == SumSeq([k \in 1..Len(refunds') |->
                                IF refunds'[k].payment = i /\ refunds'[k].status = "SUCCEEDED"
                                THEN refunds'[k].amount ELSE 0])
             IN /\ payments'[i].status =
                      IF refunded < payments[i].amount
                      THEN "PARTIALLY_REFUNDED" ELSE "REFUNDED"
                /\ \A p \in Products :
                      quantity_available'[p] =
                         quantity_available[p] + ItemQty(orders[i].items, p)
      ]_vars

C27_RatingIsAverage ==
    [][\A p \in Products :
          comments'[p] # comments[p]
          => LET S == {u \in Consumers : comments'[p][u] # NoComment}
                 sum == SumRatings(comments'[p], S)
                 n == Cardinality(S)
             IN IF n = 0 THEN rating'[p] = <<0>>
                ELSE \E t \in 0..50 :
                        /\ rating'[p] = <<t>>
                        /\ 2 * t * n - 2 * sum <= n
                        /\ 2 * sum - 2 * t * n <= n
      ]_vars

\* C28: every step that brings an order to CANCELLED, whichever endpoint
\* takes it, adds the quantity of each of its OrderItems back to the
\* product's quantity_available in that same step.
C28_CancelledRestoresStock ==
    [][\A i \in 1..Len(orders) :
          (orders[i].status # "CANCELLED" /\ orders'[i].status = "CANCELLED")
          => \A p \in Products :
                quantity_available'[p] =
                    quantity_available[p] + ItemQty(orders[i].items, p)
      ]_vars

\* C29: a Payment that is SUCCEEDED belongs to an order that is CONFIRMED,
\* SHIPPED or DELIVERED.
C29_SucceededPaymentOnLiveOrder ==
    \A i \in 1..Len(orders) :
        payments[i].status = "SUCCEEDED"
        => orders[i].status \in {"CONFIRMED", "SHIPPED", "DELIVERED"}

\* C30: while the gateway keeps redelivering the verified succeeded event,
\* once the Payment row of the intent is stored the Payment eventually is
\* SUCCEEDED and its order CONFIRMED, whether or not a delivery came before
\* the row.
C30_RedeliveryEventuallySucceeds ==
    (payments[1] # NoPayment)
        ~> (payments[1].status = "SUCCEEDED" /\ orders[1].status = "CONFIRMED")

=============================================================================
